---- MODULE Spec2Model ----
(***************************************************************************)
(* Model of the ratings operator (src/src/charm.py): the four lifecycle    *)
(* handlers of RatingsCharm, the JWT secret resolution, the connection     *)
(* string builder and the proxy set-up, run one event at a time on the     *)
(* units of one application.                                               *)
(*                                                                         *)
(* Every dispatched event runs in a fresh process: RatingsCharm.__init__   *)
(* (which loads the env file) and then the handler.  `hook` records what   *)
(* that process did: the runner calls it made, the statuses it set, the    *)
(* exception that escaped it and its process environment when it ended.    *)
(***************************************************************************)
EXTENDS Naturals, Sequences, FiniteSets, TLC

(* ------------------------------ bounds --------------------------------- *)
NumUnits == 2
NumTokens == 2

(* --------------------------- program constants ------------------------- *)
PORT == 443
TokenBytes == 24

Units == 1..NumUnits

(* Error texts the external runner's operations may raise. *)
ErrTexts == {"runner failed"}
Ok == "ok"
Outcomes == {Ok} \cup ErrTexts
NoError == "none"

(* The attributes RatingsCharm.__init__ assigns on self. *)
CharmAttrs == {"_container_runner", "_database", "_env_vars"}

MissingAttrText(name) == "'RatingsCharm' object has no attribute '" \o name \o "'"

(* The charm configuration options read by the configuration push. *)
Config == ("log-level" :> "info") @@ ("env" :> "prod")

(* ------------------------------ statuses ------------------------------- *)
MaintenanceStatus(msg) == [name |-> "maintenance", message |-> msg]
WaitingStatus(msg) == [name |-> "waiting", message |-> msg]
BlockedStatus(msg) == [name |-> "blocked", message |-> msg]
ActiveStatus == [name |-> "active", message |-> ""]
UnknownStatus == [name |-> "unknown", message |-> ""]

(* ------------------------------ env file ------------------------------- *)
Empty == <<>>
(* The 'env-file' resource: not attached, attached but empty, or a file    *)
(* with one KEY=value line.                                                *)
NoResource == "no-resource"
Resources == {NoResource, "", "GREETING=hello"}

dotenv_values(file) == IF file = "" THEN Empty ELSE ("GREETING" :> "hello")

LoadEnvFile(resource) ==
    IF resource = NoResource THEN Empty
    ELSE dotenv_values(resource)

(* --------------------------- database relation ------------------------- *)
(* dbRel is NoRelation, or Relation(d) with d the relation's databag. *)
NoRelation == [exists |-> FALSE, data |-> <<>>]
Relation(d) == [exists |-> TRUE, data |-> d]
DbDatas ==
    { Empty,
      ("username" :> "u") @@ ("password" :> "p") @@ ("endpoints" :> "host:5432") }

(* Every databag the database relation may hold: each of the three fields *)
(* missing, empty or set.                                                  *)
DbFields == {"username", "password", "endpoints"}
DbFieldValue == ("username" :> "u") @@ ("password" :> "p") @@ ("endpoints" :> "host:5432")
AllDbDatas ==
    { d \in UNION { [K -> {""} \cup {DbFieldValue[k] : k \in DbFields}] : K \in SUBSET DbFields } :
          \A k \in DOMAIN d : d[k] \in {"", DbFieldValue[k]} }

None == "None"
Get(d, k) == IF k \in DOMAIN d THEN d[k] ELSE None
Truthy(v) == v # None /\ v # ""

(* _db_connection_string testing the fields against None only. *)
DbConnectionStringNotNone(rel) ==
    IF rel = NoRelation THEN ""
    ELSE LET data == rel.data
             username == Get(data, "username")
             password == Get(data, "password")
             endpoints == Get(data, "endpoints")
         IN IF username # None /\ password # None /\ endpoints # None
            THEN "postgres://" \o username \o ":" \o password \o "@" \o endpoints \o "/ratings"
            ELSE ""

DbConnectionString(rel) ==
    IF rel = NoRelation THEN ""
    ELSE LET data == rel.data
             username == Get(data, "username")
             password == Get(data, "password")
             endpoints == Get(data, "endpoints")
         IN IF Truthy(username) /\ Truthy(password) /\ Truthy(endpoints)
            THEN "postgres://" \o username \o ":" \o password \o "@" \o endpoints \o "/ratings"
            ELSE ""

(* ------------------------------ token_hex ------------------------------ *)
HexDigits == <<"0", "1", "2", "3", "4", "5", "6", "7",
               "8", "9", "a", "b", "c", "d", "e", "f">>
HexByte(b) == HexDigits[(b \div 16) + 1] \o HexDigits[(b % 16) + 1]

RECURSIVE Hexlify(_)
Hexlify(bytes) ==
    IF bytes = <<>> THEN ""
    ELSE HexByte(Head(bytes)) \o Hexlify(Tail(bytes))

(* The byte strings the random source may deliver. *)
RandomBytes(n) == { [i \in 1..n |-> (seed * 37 + i * 11) % 256] : seed \in 1..NumTokens }

(* ------------------------- process environment ------------------------- *)
(* The environment the host starts a hook process with. *)
HostEnvs ==
    { Empty,
      ("JUJU_CHARM_HTTP_PROXY" :> ""),
      ("JUJU_CHARM_HTTP_PROXY" :> "http://squid:3128") }

(* _set_proxy without its second assignment. *)
SetProxyHttpOnly(env) ==
    LET proxy_url == Get(env, "JUJU_CHARM_HTTP_PROXY")
    IN IF Truthy(proxy_url)
       THEN ("HTTP_PROXY" :> proxy_url) @@ env
       ELSE env

SetProxy(env) ==
    LET proxy_url == Get(env, "JUJU_CHARM_HTTP_PROXY")
    IN IF Truthy(proxy_url)
       THEN ("HTTP_PROXY" :> proxy_url) @@ ("HTTPS_PROXY" :> proxy_url) @@ env
       ELSE env

(* ------------------------------ variables ------------------------------ *)
VARIABLES
    leader,       \* the unit that is leader
    peerRel,      \* whether the 'ratings-peers' relation exists
    peerData,     \* the application databag of the peer relation
    secretStore,  \* host secret storage: secret id -> content
    dbRel,        \* NoRelation, or Relation(databag) of the 'database' relation
    hostEnv,      \* the environment the host gives every hook process
    unitStatus,   \* unit -> status
    openedPorts,  \* unit -> set of opened ports
    hook          \* the last dispatched event's process

vars == <<leader, peerRel, peerData, secretStore, dbRel, hostEnv, unitStatus,
          openedPorts, hook>>

NoHook ==
    [unit |-> 0, event |-> "none", env_vars |-> Empty, environ |-> Empty, calls |-> <<>>,
     statuses |-> <<>>, raised |-> NoError, conn |-> None, jwt |-> None,
     created |-> 0, opened |-> {}]

Init ==
    /\ leader \in Units
    /\ peerRel = FALSE
    /\ peerData = Empty
    /\ secretStore = Empty
    /\ dbRel = NoRelation
    /\ hostEnv = ("JUJU_CHARM_HTTP_PROXY" :> "http://squid:3128")
    /\ unitStatus = [u \in Units |-> UnknownStatus]
    /\ openedPorts = [u \in Units |-> {}]
    /\ hook = NoHook

(* The process of one dispatched event. *)
NewHook(u, event) == [NoHook EXCEPT !.unit = u, !.event = event, !.environ = hostEnv]

Last(s) == s[Len(s)]

(* --------------------------- JWT secret -------------------------------- *)
(* is_leader answering True on every unit. *)
is_leader_everywhere(u) == TRUE

is_leader(u) == leader = u

(* token_hex taking its argument for the number of characters. *)
token_hex_half(bytes) == Hexlify(SubSeq(bytes, 1, Len(bytes) \div 2))

token_hex(bytes) == Hexlify(bytes)

(* The id host secret storage gives the next secret added to `store`. *)
add_secret_id(store) == "secret:" \o ToString(Cardinality(DOMAIN store) + 1)

(* Whether _jwt_secret on unit u reaches the creation of a new secret. *)
JwtSecretCreates(u) ==
    peerRel /\ ~Truthy(Get(peerData, "jwt-secret-id")) /\ is_leader(u)

(* _jwt_secret without the look-up of an existing secret id. *)
JwtSecretNoLookup(u, bytes) ==
    LET unchanged(v) == [value |-> v, store |-> secretStore, data |-> peerData]
    IN IF ~peerRel THEN unchanged("")
       ELSE IF is_leader(u)
       THEN LET content == ("jwt-secret" :> token_hex(bytes))
                id == add_secret_id(secretStore)
            IN [value |-> content["jwt-secret"],
                store |-> (id :> content) @@ secretStore,
                data  |-> ("jwt-secret-id" :> id) @@ peerData]
       ELSE unchanged("")

(* _jwt_secret without the write of the new secret's id to the peer databag. *)
JwtSecretUnpublished(u, bytes) ==
    LET unchanged(v) == [value |-> v, store |-> secretStore, data |-> peerData]
        secret_id == Get(peerData, "jwt-secret-id")
    IN IF ~peerRel THEN unchanged("")
       ELSE IF Truthy(secret_id)
       THEN unchanged(Get(secretStore[secret_id], "jwt-secret"))
       ELSE IF is_leader(u)
       THEN LET content == ("jwt-secret" :> token_hex(bytes))
                id == add_secret_id(secretStore)
            IN [value |-> content["jwt-secret"],
                store |-> (id :> content) @@ secretStore,
                data  |-> peerData]
       ELSE unchanged("")

(* _jwt_secret returning the id of an existing secret instead of its content. *)
JwtSecretReturnsId(u, bytes) ==
    LET unchanged(v) == [value |-> v, store |-> secretStore, data |-> peerData]
        secret_id == Get(peerData, "jwt-secret-id")
    IN IF ~peerRel THEN unchanged("")
       ELSE IF Truthy(secret_id)
       THEN unchanged(secret_id)
       ELSE IF is_leader(u)
       THEN LET content == ("jwt-secret" :> token_hex(bytes))
                id == add_secret_id(secretStore)
            IN [value |-> content["jwt-secret"],
                store |-> (id :> content) @@ secretStore,
                data  |-> ("jwt-secret-id" :> id) @@ peerData]
       ELSE unchanged("")

(* _jwt_secret on unit u, the random source delivering `bytes`: the value  *)
(* returned, and the secret storage and the peer databag it leaves.        *)
JwtSecret(u, bytes) ==
    LET unchanged(v) == [value |-> v, store |-> secretStore, data |-> peerData]
        secret_id == Get(peerData, "jwt-secret-id")
    IN IF ~peerRel THEN unchanged("")
       ELSE IF Truthy(secret_id)
       THEN unchanged(Get(secretStore[secret_id], "jwt-secret"))
       ELSE IF is_leader(u)
       THEN LET content == ("jwt-secret" :> token_hex(bytes))
                id == add_secret_id(secretStore)
            IN [value |-> content["jwt-secret"],
                store |-> (id :> content) @@ secretStore,
                data  |-> ("jwt-secret-id" :> id) @@ peerData]
       ELSE unchanged("")

(* ------------------------------ handlers ------------------------------- *)
(* A call of the external runner: its arguments, and Ok or the error it raised. *)
Call(op, args, result) == [op |-> op, args |-> args, result |-> result]

SetStatus(h, st) == [h EXCEPT !.statuses = Append(@, st)]

(* The unit's status when the hook ends: the last one the hook set. *)
FinalStatus(u, h) == IF h.statuses = <<>> THEN unitStatus[u] ELSE Last(h.statuses)

(* _on_install with the failure swallowed: the except branch sets no status. *)
InstallHookSwallowed(h, installed) ==
    LET h1 == SetStatus(h, MaintenanceStatus("Installing Container Runner"))
        h2 == [h1 EXCEPT !.calls = Append(@, Call("install", Empty, installed))]
    IN IF installed = Ok
       THEN SetStatus(h2, MaintenanceStatus("Installation complete, waiting for database."))
       ELSE h2

(* _on_install *)
InstallHook(h, installed) ==
    LET h1 == SetStatus(h, MaintenanceStatus("Installing Container Runner"))
        h2 == [h1 EXCEPT !.calls = Append(@, Call("install", Empty, installed))]
    IN IF installed = Ok
       THEN SetStatus(h2, MaintenanceStatus("Installation complete, waiting for database."))
       ELSE SetStatus(h2, BlockedStatus(installed))

OnInstall(u) ==
    \E installed \in Outcomes :
        LET h == InstallHook(NewHook(u, "install"), installed)
        IN /\ hook' = h
           /\ unitStatus' = [unitStatus EXCEPT ![u] = FinalStatus(u, h)]
           /\ openedPorts' = [openedPorts EXCEPT ![u] = @ \cup h.opened]
           /\ UNCHANGED <<leader, peerRel, peerData, secretStore, dbRel, hostEnv>>

(* _on_start with the open_port call of its try block in effect. *)
StartHookOpensPort(h, env_vars, ran, configured) ==
    LET h1 == [h EXCEPT !.calls = Append(@, Call("run", Empty, ran))]
    IN IF ran # Ok THEN [h1 EXCEPT !.raised = ran]
       ELSE LET h2 == IF env_vars # Empty
                      THEN [h1 EXCEPT !.env_vars = env_vars,
                                      !.calls = Append(@, Call("configure", env_vars, configured))]
                      ELSE h1
                h3 == IF env_vars # Empty /\ configured # Ok
                      THEN SetStatus(h2, BlockedStatus(
                               "Failed to start Ratings service: " \o configured))
                      ELSE SetStatus([h2 EXCEPT !.opened = {PORT}], ActiveStatus)
            IN SetStatus(h3, ActiveStatus)

(* _on_start; env_vars is self._env_vars, loaded by __init__ and read by   *)
(* the handler once run() has returned.                                    *)
StartHook(h, env_vars, ran, configured) ==
    LET h1 == [h EXCEPT !.calls = Append(@, Call("run", Empty, ran))]
    IN IF ran # Ok THEN [h1 EXCEPT !.raised = ran]
       ELSE LET h2 == IF env_vars # Empty
                      THEN [h1 EXCEPT !.env_vars = env_vars,
                                      !.calls = Append(@, Call("configure", env_vars, configured))]
                      ELSE h1
                h3 == IF env_vars # Empty /\ configured # Ok
                      THEN SetStatus(h2, BlockedStatus(
                               "Failed to start Ratings service: " \o configured))
                      ELSE SetStatus(h2, ActiveStatus)
            IN SetStatus(h3, ActiveStatus)

OnStart(u) ==
    \E resource \in Resources, ran \in Outcomes :
      \E configured \in IF ran = Ok /\ LoadEnvFile(resource) # Empty
                        THEN Outcomes ELSE {Ok} :
        LET h == StartHook(NewHook(u, "start"), LoadEnvFile(resource), ran, configured)
        IN /\ hook' = h
           /\ unitStatus' = [unitStatus EXCEPT ![u] = FinalStatus(u, h)]
           /\ openedPorts' = [openedPorts EXCEPT ![u] = @ \cup h.opened]
           /\ UNCHANGED <<leader, peerRel, peerData, secretStore, dbRel, hostEnv>>

(* _on_upgrade_charm refreshing the runner, as its docstring announces. *)
UpgradeHookRefreshes(h) ==
    SetStatus([h EXCEPT !.calls = Append(@, Call("install", Empty, Ok))],
              MaintenanceStatus("upgrade hook called"))

(* _on_upgrade_charm *)
UpgradeHook(h) == SetStatus(h, MaintenanceStatus("upgrade hook called"))

OnUpgradeCharm(u) ==
    LET h == UpgradeHook(NewHook(u, "upgrade_charm"))
    IN /\ hook' = h
       /\ unitStatus' = [unitStatus EXCEPT ![u] = FinalStatus(u, h)]
       /\ openedPorts' = [openedPorts EXCEPT ![u] = @ \cup h.opened]
       /\ UNCHANGED <<leader, peerRel, peerData, secretStore, dbRel, hostEnv>>

(* _update_service_config, run by _on_database_created *)
(* Attribute look-up on a charm that has every attribute asked for. *)
HasAttrAlways(name) == TRUE

HasAttr(name) == name \in CharmAttrs

(* The relation check never taking the early return. *)
RelationMissingIgnored(rel) == FALSE

(* self.model.get_relation("database") is None *)
RelationMissing(rel) == rel = NoRelation

(* The except branch undoing what _jwt_secret did before the failure. *)
ConfigFailedRollsBack(jwt, h, text) ==
    [secret |-> [value |-> jwt.value, store |-> secretStore, data |-> peerData],
     ports  |-> {},
     hook   |-> SetStatus(h, BlockedStatus("Failed to start Ratings service: " \o text))]

(* The except branch of _update_service_config: the unit is blocked with   *)
(* the error's text; what _jwt_secret stored and published before stays.   *)
ConfigFailed(jwt, h, text) ==
    [secret |-> jwt,
     ports  |-> {},
     hook   |-> SetStatus(h, BlockedStatus("Failed to start Ratings service: " \o text))]

UpdateServiceConfigHook(h, bytes, configured) ==
    IF RelationMissing(dbRel)
    THEN [secret |-> [value |-> None, store |-> secretStore, data |-> peerData],
          ports  |-> {},
          hook   |-> SetStatus(h, WaitingStatus("Waiting for database relation"))]
    ELSE LET h1 == SetStatus(h, MaintenanceStatus("Attempting to update Ratings config."))
             connection_string == DbConnectionString(dbRel)
             jwt == JwtSecret(h.unit, bytes)
             h2 == [h1 EXCEPT !.conn = connection_string,
                              !.jwt = jwt.value,
                              !.created = Cardinality(DOMAIN jwt.store)
                                          - Cardinality(DOMAIN secretStore),
                              !.environ = SetProxy(@)]
             options == ("jwt_secret" :> jwt.value)
                        @@ ("postgres_uri" :> connection_string)
                        @@ ("migration_postgres_uri" :> connection_string)
                        @@ ("log_level" :> Config["log-level"])
                        @@ ("env" :> Config["env"])
             h3 == [h2 EXCEPT !.calls = Append(@, Call("configure", options, configured))]
         IN IF ~HasAttr("_ratings")
            THEN ConfigFailed(jwt, h2, MissingAttrText("_ratings"))
            ELSE IF configured # Ok
            THEN ConfigFailed(jwt, h3, configured)
            ELSE [secret |-> jwt, ports |-> {PORT},
                  hook |-> SetStatus([h3 EXCEPT !.opened = {PORT}], ActiveStatus)]

OnDatabaseCreated(u) ==
    \E bytes \in IF ~RelationMissing(dbRel) /\ JwtSecretCreates(u)
                 THEN RandomBytes(TokenBytes) ELSE {<<>>} :
      \E configured \in IF ~RelationMissing(dbRel) /\ HasAttr("_ratings")
                        THEN Outcomes ELSE {Ok} :
        LET r == UpdateServiceConfigHook(NewHook(u, "database_created"), bytes, configured)
        IN /\ hook' = r.hook
           /\ unitStatus' = [unitStatus EXCEPT ![u] = FinalStatus(u, r.hook)]
           /\ secretStore' = r.secret.store
           /\ peerData' = r.secret.data
           /\ openedPorts' = [openedPorts EXCEPT ![u] = @ \cup r.ports]
           /\ UNCHANGED <<leader, peerRel, dbRel, hostEnv>>

(* ----------------------------- environment ----------------------------- *)
(* The host elects another unit leader. *)
LeaderChanged ==
    /\ \E l \in Units : l # leader /\ leader' = l
    /\ UNCHANGED <<peerRel, peerData, secretStore, dbRel, hostEnv, unitStatus,
                   openedPorts, hook>>

(* The host creates the peer relation, with an empty application databag. *)
PeerRelationCreated ==
    /\ ~peerRel
    /\ peerRel' = TRUE
    /\ peerData' = Empty
    /\ UNCHANGED <<leader, secretStore, dbRel, hostEnv, unitStatus, openedPorts, hook>>

(* The database relation is created, its databag changes, or it is removed. *)
DatabaseRelationChanged ==
    /\ \E r \in {Relation(d) : d \in DbDatas} \cup {NoRelation} : r # dbRel /\ dbRel' = r
    /\ UNCHANGED <<leader, peerRel, peerData, secretStore, hostEnv, unitStatus,
                   openedPorts, hook>>

Next ==
    \/ \E u \in Units : OnInstall(u)
    \/ \E u \in Units : OnStart(u)
    \/ \E u \in Units : OnUpgradeCharm(u)
    \/ \E u \in Units : OnDatabaseCreated(u)
    \/ LeaderChanged
    \/ PeerRelationCreated
    \/ DatabaseRelationChanged

Spec == Init /\ [][Next]_vars

(* ------------------- events with the world held still ------------------ *)
(* Any leadership, peer relation (with or without a published secret) and  *)
(* database relation the application can be in; then only events are       *)
(* delivered, so that nothing outside the handlers changes between two     *)
(* deliveries.                                                             *)
InitRedeliver ==
    /\ leader \in Units
    /\ peerRel \in BOOLEAN
    /\ \E published \in BOOLEAN, bytes \in RandomBytes(TokenBytes) :
           IF peerRel /\ published
           THEN /\ secretStore = (add_secret_id(Empty) :> ("jwt-secret" :> token_hex(bytes)))
                /\ peerData = ("jwt-secret-id" :> add_secret_id(Empty))
           ELSE /\ secretStore = Empty
                /\ peerData = Empty
    /\ dbRel \in {Relation(d) : d \in DbDatas} \cup {NoRelation}
    /\ hostEnv = ("JUJU_CHARM_HTTP_PROXY" :> "http://squid:3128")
    /\ unitStatus = [u \in Units |-> UnknownStatus]
    /\ openedPorts = [u \in Units |-> {}]
    /\ hook = NoHook

NextRedeliver ==
    \/ \E u \in Units : OnInstall(u)
    \/ \E u \in Units : OnStart(u)
    \/ \E u \in Units : OnUpgradeCharm(u)
    \/ \E u \in Units : OnDatabaseCreated(u)

SpecRedeliver == InitRedeliver /\ [][NextRedeliver]_vars

(* ------------------------ any host environment ------------------------ *)
(* The host gives the hook processes an environment without the proxy      *)
(* variable, with an empty one or with a proxy URL; events are delivered   *)
(* and the database relation comes and goes.                               *)
InitProxy ==
    /\ leader \in Units
    /\ peerRel = FALSE
    /\ peerData = Empty
    /\ secretStore = Empty
    /\ dbRel = NoRelation
    /\ hostEnv \in HostEnvs
    /\ unitStatus = [u \in Units |-> UnknownStatus]
    /\ openedPorts = [u \in Units |-> {}]
    /\ hook = NoHook

NextProxy ==
    \/ \E u \in Units : OnInstall(u)
    \/ \E u \in Units : OnStart(u)
    \/ \E u \in Units : OnUpgradeCharm(u)
    \/ \E u \in Units : OnDatabaseCreated(u)
    \/ DatabaseRelationChanged

SpecProxy == InitProxy /\ [][NextProxy]_vars

(* ----------------- the connection-string builder alone ----------------- *)
(* Any state of the database relation, and on it the builder, called       *)
(* directly or by the database-created handler.                            *)
InitConn ==
    /\ leader \in Units
    /\ peerRel = FALSE
    /\ peerData = Empty
    /\ secretStore = Empty
    /\ dbRel \in {Relation(d) : d \in AllDbDatas} \cup {NoRelation}
    /\ hostEnv = ("JUJU_CHARM_HTTP_PROXY" :> "http://squid:3128")
    /\ unitStatus = [u \in Units |-> UnknownStatus]
    /\ openedPorts = [u \in Units |-> {}]
    /\ hook = NoHook

CallDbConnectionString ==
    /\ hook' = [NoHook EXCEPT !.event = "_db_connection_string",
                              !.conn = DbConnectionString(dbRel)]
    /\ UNCHANGED <<leader, peerRel, peerData, secretStore, dbRel, hostEnv, unitStatus,
                   openedPorts>>

NextConn ==
    \/ CallDbConnectionString
    \/ \E u \in Units : OnDatabaseCreated(u)

SpecConn == InitConn /\ [][NextConn]_vars
(* ======================================================================= *)
(*                               Properties                                *)
(* ======================================================================= *)
(* Whether text t occurs in text s. *)
Contains(s, t) ==
    \E i \in 0..(Len(s) - Len(t)) : SubSeq(s, i + 1, i + Len(t)) = t

CallsOf(h, op) == { i \in 1..Len(h.calls) : h.calls[i].op = op }
FailedCalls(h) == { i \in 1..Len(h.calls) : h.calls[i].result # Ok }
StatusNames(h) == { h.statuses[i].name : i \in 1..Len(h.statuses) }

(* A database-created hook that found the database relation. *)
DbCreatedWithRelation(h) == h.event = "database_created" /\ h.conn # None

ConfigOptions == {"jwt_secret", "postgres_uri", "migration_postgres_uri", "log_level", "env"}

(* C1: a database-created hook that finds the database relation and in     *)
(* which no configure call fails pushes the five options to the runner and *)
(* ends with the unit active, never having set it blocked.                 *)
C1_DatabaseCreatedEndsActive ==
    (DbCreatedWithRelation(hook) /\ FailedCalls(hook) = {})
        => /\ \E i \in CallsOf(hook, "configure") :
                  DOMAIN hook.calls[i].args = ConfigOptions
           /\ unitStatus[hook.unit] = ActiveStatus
           /\ "blocked" \notin StatusNames(hook)

(* C2: in every hook, every failure of a runner call is caught: nothing    *)
(* escapes the handler, and the unit ends blocked with a message carrying  *)
(* the error text.                                                         *)
C2_FailuresEndBlocked ==
    \A i \in FailedCalls(hook) :
        /\ hook.raised = NoError
        /\ unitStatus[hook.unit].name = "blocked"
        /\ Contains(unitStatus[hook.unit].message, hook.calls[i].result)

(* C3: the install hook calls the installer exactly once; if the installer *)
(* fails the unit ends blocked with the error text as message, otherwise   *)
(* in maintenance 'waiting for database'; never at the 'Installing'        *)
(* message and never active.                                               *)
C3_InstallOutcome ==
    hook.event = "install"
        => LET st == unitStatus[hook.unit]
           IN /\ Cardinality(CallsOf(hook, "install")) = 1
              /\ hook.raised = NoError
              /\ \A i \in CallsOf(hook, "install") :
                     IF hook.calls[i].result = Ok
                     THEN /\ st.name = "maintenance"
                          /\ Contains(st.message, "waiting for database")
                     ELSE st = BlockedStatus(hook.calls[i].result)
              /\ st # MaintenanceStatus("Installing Container Runner")
              /\ st.name # "active"

C3_Witness ==
    /\ hook.event = "install"
    /\ FailedCalls(hook) # {}
    /\ unitStatus[hook.unit].name = "blocked"

(* C4: after every start hook the unit is active, whatever failed in it.   *)
C4_StartEndsActive ==
    hook.event = "start" => unitStatus[hook.unit] = ActiveStatus
(* ----------------------------- JWT secret ------------------------------ *)
NumSecrets == Cardinality(DOMAIN secretStore)
PublishedId == Get(peerData, "jwt-secret-id")
Published == Truthy(PublishedId)
PublishedValue == secretStore[PublishedId]["jwt-secret"]

(* A step in which a hook ran (every other step leaves `hook` alone). *)
HookRan == hook' # hook
(* A step in which a database-created hook ran and resolved the JWT secret. *)
ResolutionRan == HookRan /\ hook'.event = "database_created" /\ hook'.jwt # None

HexChars == {"0", "1", "2", "3", "4", "5", "6", "7",
             "8", "9", "a", "b", "c", "d", "e", "f"}
IsHex(s, n) == Len(s) = n /\ \A i \in 1..n : SubSeq(s, i, i) \in HexChars

(* C5: over any sequence of events on any units and any changes of         *)
(* leadership, secret storage never holds more than one JWT secret, and    *)
(* every step that adds a secret or writes the peer databag is a           *)
(* database-created hook of the unit that is leader in that step, run      *)
(* while no secret existed and none was published.                         *)
C5_SecretCreatedOnceByLeader ==
    /\ [](NumSecrets <= 1)
    /\ [][ (secretStore' # secretStore \/ peerData' # peerData)
             => /\ hook'.event = "database_created"
                /\ hook'.unit = leader
                /\ leader' = leader
                /\ secretStore = Empty
                /\ ~Published
                /\ hook'.created = 1
                /\ Cardinality(DOMAIN secretStore') = 1 ]_vars

(* A leader resolved the secret without creating it: an earlier hook did. *)
C5_Witness ==
    /\ hook.event = "database_created"
    /\ hook.unit = leader
    /\ Truthy(hook.jwt)
    /\ hook.created = 0
    /\ NumSecrets = 1

(* C6: every resolution that returns a non-empty value returns the value   *)
(* of the published secret, and once a secret is published its id, its     *)
(* value and secret storage never change: all non-empty resolutions, on    *)
(* any unit, return one value, and a repeated resolution creates nothing.  *)
C6_OneSecretValue ==
    /\ []((hook.event = "database_created" /\ Truthy(hook.jwt))
            => (Published /\ hook.jwt = PublishedValue))
    /\ [][ Published
             => /\ PublishedId' = PublishedId
                /\ PublishedValue' = PublishedValue
                /\ secretStore' = secretStore ]_vars

(* A unit that is not the leader resolved the secret another hook created. *)
C6_Witness ==
    /\ hook.event = "database_created"
    /\ hook.unit # leader
    /\ Truthy(hook.jwt)
    /\ hook.created = 0
    /\ hook.jwt = PublishedValue

(* What C7 asks of a resolution that creates the secret: a new value of 48 *)
(* hex characters, stored, its id published.                               *)
CreatedAndPublished ==
    /\ IsHex(hook'.jwt, 48)
    /\ hook'.created = 1
    /\ Published'
    /\ PublishedId' \notin DOMAIN secretStore
    /\ PublishedId' \in DOMAIN secretStore'
    /\ PublishedValue' = hook'.jwt

(* C7 as stated: whenever the resolution runs on the leader and finds no   *)
(* secret id in the peer databag, it creates, stores and publishes.        *)
C7_LeaderAlwaysCreates ==
    [][ (ResolutionRan /\ hook'.unit = leader /\ ~Published)
          => CreatedAndPublished ]_vars

(* C7 amended: the same, when the peer relation exists. *)
C7_LeaderCreatesWhenPeerReady ==
    [][ (ResolutionRan /\ hook'.unit = leader /\ peerRel /\ ~Published)
          => CreatedAndPublished ]_vars

C7_Witness ==
    /\ hook.event = "database_created"
    /\ hook.created = 1
    /\ IsHex(hook.jwt, 48)
    /\ Published
    /\ PublishedValue = hook.jwt

(* C8: a resolution on a unit that is not the leader, with no secret id    *)
(* published, returns the empty string and leaves secret storage and the   *)
(* peer databag as they were.                                              *)
C8_NonLeaderFabricatesNothing ==
    [][ (ResolutionRan /\ hook'.unit # leader /\ ~Published)
          => /\ hook'.jwt = ""
             /\ hook'.created = 0
             /\ secretStore' = secretStore
             /\ peerData' = peerData ]_vars

C8_Witness ==
    /\ hook.event = "database_created"
    /\ hook.jwt = ""
    /\ hook.unit # leader
    /\ peerRel
    /\ ~Published

(* C9: a database-created hook that finds no database relation sets the    *)
(* unit waiting and does nothing else: no runner call, no secret, no write *)
(* of the peer databag, no change of the process environment, no port.     *)
C9_NoRelationOnlyWaits ==
    [][ (HookRan /\ hook'.event = "database_created" /\ dbRel = NoRelation)
          => /\ Len(hook'.statuses) = 1
             /\ hook'.statuses[1].name = "waiting"
             /\ unitStatus' = [unitStatus EXCEPT ![hook'.unit] = hook'.statuses[1]]
             /\ hook'.raised = NoError
             /\ hook'.calls = <<>>
             /\ hook'.created = 0
             /\ secretStore' = secretStore
             /\ peerData' = peerData
             /\ hook'.environ = hostEnv
             /\ hook'.opened = {}
             /\ openedPorts' = openedPorts ]_vars

(* The leader, with the peer relation ready and no secret yet, only waited. *)
C9_Witness ==
    /\ hook.event = "database_created"
    /\ unitStatus[hook.unit].name = "waiting"
    /\ dbRel = NoRelation
    /\ hook.unit = leader
    /\ peerRel
    /\ NumSecrets = 0

DbComplete ==
    /\ dbRel.exists
    /\ \A k \in {"username", "password", "endpoints"} :
           k \in DOMAIN dbRel.data /\ dbRel.data[k] # ""

(* C11: the builder returns "" whenever the relation is missing or one of  *)
(* username, password, endpoints is missing or empty, and otherwise        *)
(* exactly postgres://<username>:<password>@<endpoints>/ratings (never a   *)
(* partly filled URI); no step that runs it changes the relation data.     *)
C11_ConnectionString ==
    /\ [](hook.conn # None
            => /\ ~DbComplete => hook.conn = ""
               /\ DbComplete
                    => hook.conn = "postgres://" \o dbRel.data["username"] \o ":"
                                   \o dbRel.data["password"] \o "@"
                                   \o dbRel.data["endpoints"] \o "/ratings"
               /\ (DbComplete /\ dbRel.data["username"] = "u"
                      /\ dbRel.data["password"] = "p"
                      /\ dbRel.data["endpoints"] = "host:5432")
                    => hook.conn = "postgres://u:p@host:5432/ratings")
    /\ [][dbRel' = dbRel]_vars

(* The builder ran on a databag whose password is set but empty. *)
C11_Witness ==
    /\ hook.conn = ""
    /\ dbRel.exists
    /\ DOMAIN dbRel.data = {"username", "password", "endpoints"}
    /\ dbRel.data["password"] = ""
    /\ dbRel.data["username"] # ""
    /\ dbRel.data["endpoints"] # ""
(* ---------------------------- re-delivery ------------------------------ *)
(* The step delivers to the same unit the event the previous step          *)
(* delivered, and the process meets the same env file and the same         *)
(* outcome of every runner call both processes make.                       *)
Redelivered ==
    /\ hook.event # "none"
    /\ hook'.event = hook.event
    /\ hook'.unit = hook.unit
    /\ hook'.env_vars = hook.env_vars
    /\ \A i \in 1..Len(hook.calls) :
           i <= Len(hook'.calls) => hook'.calls[i].result = hook.calls[i].result

(* C12: with relation data, leadership and environment held still, an      *)
(* event delivered a second time in succession to the same unit, meeting   *)
(* the same runner outcomes, leaves the state of the first delivery: unit  *)
(* statuses, peer databag, secret storage, opened ports, and the runner    *)
(* calls with the values pushed.                                           *)
C12_RedeliveryIdempotent ==
    [][ Redelivered
          => /\ unitStatus' = unitStatus
             /\ peerData' = peerData
             /\ secretStore' = secretStore
             /\ openedPorts' = openedPorts
             /\ hook'.calls = hook.calls
             /\ hook'.statuses = hook.statuses
             /\ hook'.jwt = hook.jwt
             /\ hook'.conn = hook.conn ]_vars

(* The second database-created delivery on the leader found the secret the *)
(* first one created.                                                      *)
C12_Witness ==
    /\ hook.event = "database_created"
    /\ hook.unit = leader
    /\ hook.created = 0
    /\ Truthy(hook.jwt)
    /\ unitStatus[hook.unit].name = "blocked"
    /\ Cardinality(DOMAIN secretStore) = 1
ProxyTargets == {"HTTP_PROXY", "HTTPS_PROXY"}

(* C15: in the environment a hook process ends with, HTTP_PROXY or         *)
(* HTTPS_PROXY is set only if the source variable is present, and then     *)
(* both are set to the source URL; a process that ran the proxy set-up     *)
(* with a source URL has both set; with the source absent both are unset   *)
(* after every hook; and running the set-up again changes nothing.         *)
C15_ProxyConfiguration ==
    hook.event # "none"
        => LET env == hook.environ
               source == Get(env, "JUJU_CHARM_HTTP_PROXY")
           IN /\ (\E k \in ProxyTargets : k \in DOMAIN env)
                    => /\ source # None
                       /\ \A k \in ProxyTargets : k \in DOMAIN env /\ env[k] = source
              /\ source = None => \A k \in ProxyTargets : k \notin DOMAIN env
              /\ (DbCreatedWithRelation(hook) /\ source # None /\ source # "")
                    => \A k \in ProxyTargets : k \in DOMAIN env /\ env[k] = source
              /\ DbCreatedWithRelation(hook) => SetProxy(env) = env
              /\ \A k \in DOMAIN env \ ProxyTargets : k \in DOMAIN hostEnv /\ env[k] = hostEnv[k]

C15_Witness ==
    /\ DbCreatedWithRelation(hook)
    /\ DOMAIN hook.environ = {"JUJU_CHARM_HTTP_PROXY", "HTTP_PROXY", "HTTPS_PROXY"}
    /\ hook.environ["HTTP_PROXY"] = "http://squid:3128"
    /\ hook.environ["HTTPS_PROXY"] = "http://squid:3128"
(* ------------------------- secret and its id --------------------------- *)
(* C16: after every hook and every change of the environment, secret       *)
(* storage holds exactly the secret whose id the peer databag publishes    *)
(* under jwt-secret-id, and nothing when no id is published; a published   *)
(* id is never changed or removed by any step.                             *)
C16_SecretIffPublished ==
    /\ [](DOMAIN secretStore = IF Published THEN {PublishedId} ELSE {})
    /\ []("jwt-secret-id" \in DOMAIN peerData => Published)
    /\ [][ Published
             => /\ "jwt-secret-id" \in DOMAIN peerData'
                /\ peerData'["jwt-secret-id"] = peerData["jwt-secret-id"] ]_vars

(* A hook of a unit that is not the leader ran after the id was published. *)
C16_Witness ==
    /\ hook.event = "start"
    /\ hook.unit # leader
    /\ Published
    /\ DOMAIN secretStore = {PublishedId}

(* ------------------------ failure after creation ----------------------- *)
PushFailed(h) ==
    \A i \in 1..Len(h.calls) : h.calls[i].op = "configure" => h.calls[i].result # Ok

(* C17: a database-created hook that creates the secret and whose          *)
(* configuration push fails runs on the leader, ends blocked with no port  *)
(* opened, and leaves the secret it created stored and published; a later  *)
(* database-created hook that finds the id published returns that secret's *)
(* value and creates nothing.                                              *)
C17_FailureKeepsSecret ==
    [][ /\ (HookRan /\ hook'.event = "database_created" /\ hook'.created = 1
              /\ PushFailed(hook'))
            => /\ hook.unit' = leader
               /\ unitStatus'[hook'.unit].name = "blocked"
               /\ hook'.opened = {}
               /\ openedPorts' = openedPorts
               /\ ~Published
               /\ Published'
               /\ PublishedId' \in DOMAIN secretStore'
               /\ PublishedValue' = hook'.jwt
        /\ (HookRan /\ hook'.event = "database_created" /\ hook'.jwt # None
              /\ Published)
            => /\ hook'.created = 0
               /\ hook'.jwt = PublishedValue
               /\ secretStore' = secretStore
               /\ peerData' = peerData ]_vars

(* The push failed in the hook that created the secret. *)
C17_Witness ==
    /\ hook.event = "database_created"
    /\ hook.created = 1
    /\ PushFailed(hook)
    /\ unitStatus[hook.unit].name = "blocked"
    /\ openedPorts[hook.unit] = {}
    /\ Published
====
